---- MODULE Spec2Model ----
(***************************************************************************)
(* Model of src/services/flask_backend.py: the in-memory gallery           *)
(* (students_data), the matcher find_best_match and the request handlers   *)
(* register_student, recognize_faces, get_students, save_attendance,       *)
(* get_attendance_records and load_models, each run by a thread of the     *)
(* server of line 169.                                                     *)
(*                                                                         *)
(* Threads.  app.run serves every request in a thread of its own and no    *)
(* handler takes a lock.  A step of a thread is one operation on a shared  *)
(* object (students_data or attendance_records) together with the code     *)
(* that touches no shared object before it: the interpreter runs one dict  *)
(* operation (a truth test, an item assignment, the creation of an         *)
(* iterator, a next() on it) at a time.  The value stored for a student is *)
(* built by its handler and never changed after it is stored, so a thread  *)
(* that has taken it from the dict reads its name and its descriptors from *)
(* one object.                                                             *)
(*                                                                         *)
(* Numbers.  Distances, thresholds and similarities are real numbers in    *)
(* the program.  The model keeps them exact as fixed-point integers in     *)
(* units of 0.05: 1.0 is 20 (One), the default threshold 0.6 is 12.  The   *)
(* embeddings are 2-dimensional points whose pairwise Euclidean distances  *)
(* are whole numbers of units, so sqrt is exact on every pair the model    *)
(* compares (Sqrt has no value on anything else, and TLC would stop).      *)
(***************************************************************************)
EXTENDS Integers, Sequences, FiniteSets

VARIABLES
    students_data,       \* the dict students_data, as its items in insertion order
    attendance_records,  \* the list attendance_records
    threads,             \* handler threads: the position and the locals of each
    enrolls,             \* history: the requests whose store (line 97) has run
    started              \* history: the number of requests taken by threads

vars == <<students_data, attendance_records, threads, enrolls, started>>

-----------------------------------------------------------------------------
(* Bounds of the model *)

\* number of requests the server takes
MaxRequests == 3

\* longest list of attendance records kept
MaxRecords == 1

-----------------------------------------------------------------------------
(* Fixed-point numbers *)

\* 1.0, in units of 0.05
One == 20

\* threshold=0.6, the default of find_best_match
DefaultThreshold == 12

\* thresholds a caller passes: 0.5, the default 0.6, and 2.0 (above 1.0)
Thresholds == {10, DefaultThreshold, 40}

-----------------------------------------------------------------------------
(* Input values *)

\* the value of a JSON field that is absent, null or empty (falsy in Python)
Missing == ""

SubjectIds == {"s1", "s2"}

Names == {"Alice", "Bob", "Carol"}

\* embeddings of enrolled faces: (0,0) and (0.8,0), at distance 0.8
EnrollEmbeddings == {<<0, 0>>, <<16, 0>>}

\* embeddings of probe faces: the enrolled ones and
\*   (0.4,0.3)  at distance 0.5 from both enrolled embeddings,
\*   (0,0.6)    at distances 0.6 and 1.0,
\*   (-0.5,0)   at distances 0.5 and 1.3
ProbeEmbeddings == EnrollEmbeddings \cup {<<8, 6>>, <<0, 12>>, <<-10, 0>>}

\* An image is what the decoder and the face detector make of it: it either
\* fails to decode (ok = FALSE) or decodes to the faces found in it, each
\* face given by the encoding face_encodings computes for it.  present says
\* that the request field holding it is non-empty.
CorruptImage == [present |-> TRUE, ok |-> FALSE, faces |-> <<>>]

Image(faces) == [present |-> TRUE, ok |-> TRUE, faces |-> faces]

\* the "image" field of a recognize-faces request that is absent or empty
NoImage == [present |-> FALSE, ok |-> FALSE, faces |-> <<>>]

\* image lists sent to register-student, and the descriptors lines 71-91
\* take from them:
\*   ImagesA  one face                                   [(0,0)]
\*   ImagesB  undecodable, one face                      [(0.8,0)]
\*   ImagesC  one face, two faces, one face              [(0.8,0), (0,0)]
\*   ImagesD  no face, undecodable                       []
ImagesA == <<Image(<<<<0, 0>>>>)>>

ImagesB == <<CorruptImage, Image(<<<<16, 0>>>>)>>

ImagesC ==
    <<Image(<<<<16, 0>>>>), Image(<<<<0, 0>>, <<16, 0>>>>),
      Image(<<<<0, 0>>>>)>>

ImagesD == <<Image(<<>>), CorruptImage>>

\* register-student requests that are stored.  Every name comes with one
\* image list, so that a stored value tells the request it came from.
Enrollments ==
    {<<id, p[1], p[2]>> :
        id \in SubjectIds,
        p \in {<<"Alice", ImagesA>>, <<"Bob", ImagesB>>,
               <<"Carol", ImagesC>>}}

\* register-student requests that are rejected: no usable image, no id, no
\* name, no images
Rejections ==
    {<<"s1", "Bob", ImagesD>>, <<Missing, "Alice", ImagesA>>,
     <<"s1", Missing, ImagesA>>, <<"s1", "Alice", <<>>>>}

RegisterInputs == Enrollments \cup Rejections

\* the requests that build the galleries of one or two subjects holding
\* (0,0), (0.8,0) or both
GalleryInputs ==
    {r \in Enrollments : r[2] \in {"Alice", "Bob"}}
        \cup {<<"s2", "Carol", ImagesC>>}

\* calls find_best_match(face_encoding, threshold)
FindInputs ==
    {<<<<0, 0>>, DefaultThreshold>>, <<<<0, 0>>, 40>>,
     <<<<8, 6>>, DefaultThreshold>>, <<<<8, 6>>, 10>>,
     <<<<0, 12>>, DefaultThreshold>>, <<<<0, 12>>, 40>>,
     <<<<-10, 0>>, 40>>}

\* images sent to recognize-faces: none, undecodable, no face, two faces of
\* which the second is enrolled, and three faces of which the first and the
\* third are enrolled under different subjects
ThreeFaces == Image(<<<<16, 0>>, <<0, 12>>, <<0, 0>>>>)

ProbeImages ==
    {NoImage, CorruptImage, Image(<<>>), Image(<<<<0, 12>>, <<0, 0>>>>),
     ThreeFaces}

\* save-attendance requests: a course or none, and the students marked
Courses == {"CS101"}

-----------------------------------------------------------------------------
(* Utility functions *)

\* numpy.sqrt on the squares the model meets
Sqrt(n) == CHOOSE r \in 0..n : r * r = n

\* face_recognition.face_distance([a], b)[0]: the Euclidean norm of a - b
face_distance(a, b) ==
    Sqrt((a[1] - b[1]) * (a[1] - b[1]) + (a[2] - b[2]) * (a[2] - b[2]))

\* return value None of find_best_match, and a returned dictionary
None == <<>>

Some(m) == <<m>>

\* "similarity": 1 - distance
SimilarityNegated(distance) == distance - One

Similarity(distance) == One - distance

\* the test of line 45
AcceptsAtThreshold(distance, best_distance, threshold) ==
    distance < best_distance /\ distance <= threshold

AcceptsOnTie(distance, best_distance, threshold) ==
    distance <= best_distance /\ distance < threshold

AcceptsAnyDistance(distance, best_distance, threshold) ==
    distance < best_distance

Accepts(distance, best_distance, threshold) ==
    distance < best_distance /\ distance < threshold

\* best_distance = 1.0
InitialBestDistanceUnbounded == 1000 * One

InitialBestDistance == One

\* The (student, descriptor) pairs in the order the two nested loops of
\* find_best_match visit them: dictionary insertion order, then list order.
RECURSIVE VisitsFirstDescriptorOnly(_)
VisitsFirstDescriptorOnly(data) ==
    IF data = <<>> THEN <<>>
    ELSE VisitsFirstDescriptorOnly(SubSeq(data, 1, Len(data) - 1)) \o
         [j \in 1..1 |->
            [student_id |-> data[Len(data)].id,
             name |-> data[Len(data)].name,
             descriptor |-> data[Len(data)].descriptors[j]]]

RECURSIVE Visits(_)
Visits(data) ==
    IF data = <<>> THEN <<>>
    ELSE Visits(SubSeq(data, 1, Len(data) - 1)) \o
         [j \in 1..Len(data[Len(data)].descriptors) |->
            [student_id |-> data[Len(data)].id,
             name |-> data[Len(data)].name,
             descriptor |-> data[Len(data)].descriptors[j]]]

\* One iteration of the inner loop, lines 41-51, on the accumulator
\* acc = [best_match, best_distance].
ScanStepKeepsSentinel(acc, visit, face_encoding, threshold) ==
    LET distance == face_distance(visit.descriptor, face_encoding) IN
    IF Accepts(distance, acc.best_distance, threshold)
    THEN [best_distance |-> acc.best_distance,
          best_match |-> Some([studentId |-> visit.student_id,
                               studentName |-> visit.name,
                               similarity |-> Similarity(distance)])]
    ELSE acc

ScanStep(acc, visit, face_encoding, threshold) ==
    LET distance == face_distance(visit.descriptor, face_encoding) IN
    IF Accepts(distance, acc.best_distance, threshold)
    THEN [best_distance |-> distance,
          best_match |-> Some([studentId |-> visit.student_id,
                               studentName |-> visit.name,
                               similarity |-> Similarity(distance)])]
    ELSE acc

RECURSIVE Scan(_, _, _, _)
Scan(visits, n, face_encoding, threshold) ==
    IF n = 0
    THEN [best_distance |-> InitialBestDistance, best_match |-> None]
    ELSE ScanStep(Scan(visits, n - 1, face_encoding, threshold),
                  visits[n], face_encoding, threshold)

find_best_match(data, face_encoding, threshold) ==
    IF data = <<>> THEN None
    ELSE Scan(Visits(data), Len(Visits(data)), face_encoding,
              threshold).best_match

-----------------------------------------------------------------------------
(* The gallery: students_data, a dict in insertion order *)

HasKey(data, student_id) == \E i \in 1..Len(data) : data[i].id = student_id

\* students_data[student_id]
Entry(data, student_id) ==
    data[CHOOSE i \in 1..Len(data) : data[i].id = student_id]

\* students_data[student_id] = {...}: a new key is appended, an existing key
\* keeps its place and gets the new value
StoreStudentMerging(data, student_id, name, descriptors) ==
    IF HasKey(data, student_id)
    THEN [i \in 1..Len(data) |->
            IF data[i].id = student_id
            THEN [id |-> student_id, name |-> name,
                  descriptors |-> data[i].descriptors \o descriptors]
            ELSE data[i]]
    ELSE Append(data, [id |-> student_id, name |-> name,
                       descriptors |-> descriptors])

StoreStudentResets(data, student_id, name, descriptors) ==
    <<[id |-> student_id, name |-> name, descriptors |-> descriptors]>>

StoreStudentMovesToEnd(data, student_id, name, descriptors) ==
    Append(SelectSeq(data, LAMBDA student : student.id # student_id),
           [id |-> student_id, name |-> name, descriptors |-> descriptors])

StoreStudent(data, student_id, name, descriptors) ==
    LET student == [id |-> student_id, name |-> name,
                    descriptors |-> descriptors] IN
    IF HasKey(data, student_id)
    THEN [i \in 1..Len(data) |->
            IF data[i].id = student_id THEN student ELSE data[i]]
    ELSE Append(data, student)

\* the loop of lines 71-91 over the images of a request: an image that fails
\* to decode raises and is skipped, an image without exactly one face is
\* skipped, and the encoding of the one face is appended.  tolist() here and
\* np.array() in find_best_match give back the same float64 numbers, so the
\* stored descriptor is the encoding.
RECURSIVE ExtractDescriptorsAbortsOnError(_)
ExtractDescriptorsAbortsOnError(images) ==
    IF images = <<>> THEN <<>>
    ELSE IF ~Head(images).ok THEN <<>>
    ELSE IF Len(Head(images).faces) = 1
    THEN <<Head(images).faces[1]>> \o
         ExtractDescriptorsAbortsOnError(Tail(images))
    ELSE ExtractDescriptorsAbortsOnError(Tail(images))

RECURSIVE ExtractDescriptors(_)
ExtractDescriptors(images) ==
    IF images = <<>> THEN <<>>
    ELSE LET img == images[Len(images)]
             rest == ExtractDescriptors(SubSeq(images, 1, Len(images) - 1))
         IN IF img.ok /\ Len(img.faces) = 1
            THEN Append(rest, img.faces[1])
            ELSE rest

\* "if not descriptors" is false
HasDescriptorsAlways(descriptors) == TRUE

HasDescriptors(descriptors) == descriptors # <<>>


-----------------------------------------------------------------------------
(* Handler threads *)

\* the accumulator of find_best_match before its loop, lines 35-36
InitialAcc == [best_distance |-> InitialBestDistance, best_match |-> None]

\* A thread that handles no request.  pc is the position of the thread, op
\* the handler it runs; id, name, images and descriptors are the locals of
\* register_student; image, face (the number of faces done) and recognized
\* those of recognize_faces; probe and threshold the arguments of a direct
\* call of find_best_match; iter_len, pos and acc the dict iterator and the
\* accumulator of the running loop; listed the list get_students builds;
\* status and match what the handler returns.  History: fetched is the last
\* value the thread took from the dict, before the gallery when the request
\* was taken (for register_student, when its verdict fell), after the gallery
\* right after the verdict of register_student, stable says that every read
\* of the dict by this request found it equal to before.
IdleThread ==
    [pc |-> "idle", op |-> "none", status |-> 0,
     id |-> Missing, name |-> Missing, images |-> <<>>, descriptors |-> <<>>,
     image |-> NoImage, face |-> 0, recognized |-> <<>>,
     probe |-> <<0, 0>>, threshold |-> DefaultThreshold, match |-> None,
     iter_len |-> 0, pos |-> 0, acc |-> InitialAcc,
     listed |-> <<>>,
     fetched |-> None, before |-> <<>>, after |-> <<>>, stable |-> TRUE]

\* the threads of the server that run at the same time
ThreadIds == {"t1", "t2"}

Init ==
    /\ students_data = <<>>
    /\ attendance_records = <<>>
    /\ threads = [t \in ThreadIds |-> IdleThread]
    /\ enrolls = {}
    /\ started = 0

\* a free thread takes the next request
Take(t) ==
    /\ threads[t].pc = "idle"
    /\ started < MaxRequests
    /\ started' = started + 1

\* POST /api/register-student, lines 63-94: the request is read and checked
\* and the descriptors are taken from the images, all on locals
begin_register_StoresBeforeCheck(t, student_id, name, images) ==
    /\ Take(t)
    /\ LET descriptors == ExtractDescriptors(images)
           request == [IdleThread EXCEPT !.op = "register_student",
                                         !.id = student_id, !.name = name,
                                         !.images = images,
                                         !.before = students_data]
       IN IF student_id = Missing \/ name = Missing \/ images = <<>>
          THEN /\ threads' = [threads EXCEPT ![t] =
                     [request EXCEPT !.pc = "done", !.status = 400,
                                     !.after = students_data]]
               /\ UNCHANGED students_data
          ELSE IF ~HasDescriptors(descriptors)
          THEN /\ students_data' =
                     StoreStudent(students_data, student_id, name,
                                  descriptors)
               /\ threads' = [threads EXCEPT ![t] =
                     [request EXCEPT !.pc = "done", !.status = 400,
                                     !.after = students_data']]
          ELSE /\ threads' = [threads EXCEPT ![t] =
                     [request EXCEPT !.pc = "store",
                                     !.descriptors = descriptors,
                                     !.before = <<>>]]
               /\ UNCHANGED students_data
    /\ UNCHANGED <<attendance_records, enrolls>>

begin_register_PublishesEarly(t, student_id, name, images) ==
    /\ Take(t)
    /\ LET descriptors == ExtractDescriptors(images)
           request == [IdleThread EXCEPT !.op = "register_student",
                                         !.id = student_id, !.name = name,
                                         !.images = images,
                                         !.before = students_data]
       IN IF student_id = Missing \/ name = Missing \/ images = <<>>
             \/ ~HasDescriptors(descriptors)
          THEN /\ threads' = [threads EXCEPT ![t] =
                     [request EXCEPT !.pc = "done", !.status = 400,
                                     !.after = students_data]]
               /\ UNCHANGED students_data
          ELSE /\ threads' = [threads EXCEPT ![t] =
                     [request EXCEPT !.pc = "store",
                                     !.descriptors = descriptors,
                                     !.before = <<>>]]
               /\ students_data' =
                     StoreStudent(students_data, student_id, name,
                                  SubSeq(descriptors, 1,
                                         Len(descriptors) - 1))
    /\ UNCHANGED <<attendance_records, enrolls>>

begin_register(t, student_id, name, images) ==
    /\ Take(t)
    /\ LET descriptors == ExtractDescriptors(images)
           request == [IdleThread EXCEPT !.op = "register_student",
                                         !.id = student_id, !.name = name,
                                         !.images = images,
                                         !.before = students_data]
       IN threads' = [threads EXCEPT ![t] =
             IF student_id = Missing \/ name = Missing \/ images = <<>>
                \/ ~HasDescriptors(descriptors)
             THEN [request EXCEPT !.pc = "done", !.status = 400,
                                  !.after = students_data]
             ELSE [request EXCEPT !.pc = "store",
                                  !.descriptors = descriptors,
                                  !.before = <<>>]]
    /\ UNCHANGED <<students_data, attendance_records, enrolls>>

\* lines 97-103: the item assignment and the answer
register_store(t) ==
    /\ threads[t].pc = "store"
    /\ students_data' =
          StoreStudent(students_data, threads[t].id, threads[t].name,
                       threads[t].descriptors)
    /\ enrolls' = enrolls \cup
          {<<threads[t].id, threads[t].name, threads[t].images>>}
    /\ threads' = [threads EXCEPT ![t].pc = "done", ![t].status = 200,
                                  ![t].before = students_data,
                                  ![t].after = students_data']
    /\ UNCHANGED <<attendance_records, started>>

\* a direct call find_best_match(face_encoding, threshold)
begin_find(t, face_encoding, threshold) ==
    /\ Take(t)
    /\ threads' = [threads EXCEPT ![t] =
          [IdleThread EXCEPT !.pc = "scan", !.op = "find_best_match",
                             !.probe = face_encoding,
                             !.threshold = threshold,
                             !.before = students_data]]
    /\ UNCHANGED <<students_data, attendance_records, enrolls>>

\* POST /api/recognize-faces, lines 107-125: the image is decoded and its
\* faces are encoded, all on locals
begin_recognize(t, image_data) ==
    /\ Take(t)
    /\ LET request == [IdleThread EXCEPT !.op = "recognize_faces",
                                         !.image = image_data,
                                         !.before = students_data]
       IN threads' = [threads EXCEPT ![t] =
             IF ~image_data.present
             THEN [request EXCEPT !.pc = "done", !.status = 400]
             ELSE IF ~image_data.ok
             THEN [request EXCEPT !.pc = "done", !.status = 500]
             ELSE IF image_data.faces = <<>>
             THEN [request EXCEPT !.pc = "done", !.status = 200]
             ELSE [request EXCEPT !.pc = "scan"]]
    /\ UNCHANGED <<students_data, attendance_records, enrolls>>

\* GET /api/get-students, line 161 up to the call of students_data.values()
begin_list(t) ==
    /\ Take(t)
    /\ threads' = [threads EXCEPT ![t] =
          [IdleThread EXCEPT !.pc = "iterate", !.op = "get_students",
                             !.before = students_data]]
    /\ UNCHANGED <<students_data, attendance_records, enrolls>>

\* the arguments of the call of find_best_match a thread is in: those of the
\* direct call, or the next face of recognize_faces and the default threshold
Probe(th) ==
    IF th.op = "recognize_faces" THEN th.image.faces[th.face + 1]
    ELSE th.probe

Threshold(th) ==
    IF th.op = "recognize_faces" THEN DefaultThreshold ELSE th.threshold

\* lines 129-130: a match is appended, None is not
CollectPrepending(recognized, match) ==
    IF match # None THEN <<match[1]>> \o recognized ELSE recognized

Collect(recognized, match) ==
    IF match # None THEN Append(recognized, match[1]) ELSE recognized

\* find_best_match returns match to its caller: the direct call is over;
\* recognize_faces collects the match and goes to its next face, or answers
\* after the last one
Returned(th, match) ==
    IF th.op = "find_best_match"
    THEN [th EXCEPT !.pc = "done", !.status = 200, !.match = match]
    ELSE LET next == [th EXCEPT !.face = @ + 1,
                                !.recognized = Collect(@, match),
                                !.acc = InitialAcc]
         IN IF th.face + 1 = Len(th.image.faces)
            THEN [next EXCEPT !.pc = "done", !.status = 200]
            ELSE [next EXCEPT !.pc = "scan"]

\* "dictionary changed size during iteration": find_best_match and
\* get_students raise RuntimeError, recognize_faces catches it (line 134)
\* and answers 500, and the server answers 500 for an uncaught exception
Raised(th) == [th EXCEPT !.pc = "done", !.status = 500]

\* the thread has read the dict: stable stays true when it found the gallery
\* of the start of the request
Read(th) == [th EXCEPT !.stable = @ /\ students_data = th.before]

\* find_best_match, lines 32-36: the truth test of the dict
scan_start(t) ==
    /\ threads[t].pc = "scan"
    /\ threads' = [threads EXCEPT ![t] =
          IF students_data = <<>>
          THEN Returned(Read(threads[t]), None)
          ELSE [Read(threads[t]) EXCEPT !.pc = "iterate",
                                        !.acc = InitialAcc]]
    /\ UNCHANGED <<students_data, attendance_records, enrolls, started>>

\* students_data.items() / .values(): the iterator notes the size of the dict
make_iterator(t) ==
    /\ threads[t].pc = "iterate"
    /\ threads' = [threads EXCEPT ![t] =
          [Read(threads[t]) EXCEPT !.pc = "next",
                                   !.iter_len = Len(students_data),
                                   !.pos = 0]]
    /\ UNCHANGED <<students_data, attendance_records, enrolls, started>>

\* the inner loop of find_best_match on one student, from the accumulator acc
RECURSIVE ScanFrom(_, _, _, _, _)
ScanFrom(acc, visits, n, face_encoding, threshold) ==
    IF n = 0 THEN acc
    ELSE ScanStep(ScanFrom(acc, visits, n - 1, face_encoding, threshold),
                  visits[n], face_encoding, threshold)

\* the element get_students makes of a student
ListedWithDescriptors(student) == student

Listed(student) == [id |-> student.id, name |-> student.name]

\* next() on the iterator and the body of the loop for the item it gives:
\* RuntimeError when the dict has changed size, the end of the loop after the
\* last item, else the item at the iterator's position in the dict as it is
\* now
iterate_next(t) ==
    /\ threads[t].pc = "next"
    /\ LET th == Read(threads[t]) IN
       threads' = [threads EXCEPT ![t] =
          IF Len(students_data) # th.iter_len
          THEN Raised(th)
          ELSE IF th.pos = th.iter_len
          THEN IF th.op = "get_students"
               THEN [th EXCEPT !.pc = "done", !.status = 200]
               ELSE Returned(th, th.acc.best_match)
          ELSE LET student == students_data[th.pos + 1] IN
               IF th.op = "get_students"
               THEN [th EXCEPT !.pos = @ + 1,
                               !.fetched = Some(student),
                               !.listed = Append(@, Listed(student))]
               ELSE [th EXCEPT !.pos = @ + 1,
                               !.fetched = Some(student),
                               !.acc = ScanFrom(@, Visits(<<student>>),
                                                Len(Visits(<<student>>)),
                                                Probe(th), Threshold(th))]]
    /\ UNCHANGED <<students_data, attendance_records, enrolls, started>>

\* POST /api/save-attendance.  The id and the date of a record come from the
\* clock and from uuid4 and are left out of the record.
save_attendance(t, course, students) ==
    /\ Take(t)
    /\ Len(attendance_records) < MaxRecords
    /\ LET request == [IdleThread EXCEPT !.op = "save_attendance",
                                         !.pc = "done",
                                         !.before = students_data]
       IN IF course = Missing
          THEN /\ threads' = [threads EXCEPT ![t] =
                     [request EXCEPT !.status = 400]]
               /\ UNCHANGED attendance_records
          ELSE /\ threads' = [threads EXCEPT ![t] =
                     [request EXCEPT !.status = 200]]
               /\ attendance_records' =
                     Append(attendance_records,
                            [course |-> course, students |-> students])
    /\ UNCHANGED <<students_data, enrolls>>

\* GET /api/get-attendance-records
get_attendance_records(t) ==
    /\ Take(t)
    /\ threads' = [threads EXCEPT ![t] =
          [IdleThread EXCEPT !.op = "get_attendance_records",
                             !.pc = "done", !.status = 200,
                             !.listed = attendance_records,
                             !.before = students_data]]
    /\ UNCHANGED <<students_data, attendance_records, enrolls>>

\* GET /api/load-models
load_models(t) ==
    /\ Take(t)
    /\ threads' = [threads EXCEPT ![t] =
          [IdleThread EXCEPT !.op = "load_models", !.pc = "done",
                             !.status = 200, !.before = students_data]]
    /\ UNCHANGED <<students_data, attendance_records, enrolls>>

\* the response leaves the server and the thread is free
thread_return(t) ==
    /\ threads[t].pc = "done"
    /\ threads' = [threads EXCEPT ![t] = IdleThread]
    /\ UNCHANGED <<students_data, attendance_records, enrolls, started>>

-----------------------------------------------------------------------------
(* The server *)

\* requests arriving, each from a set of inputs
RegisterStudent(inputs) ==
    \E t \in ThreadIds, r \in inputs : begin_register(t, r[1], r[2], r[3])

CallFindBestMatch(inputs) ==
    \E t \in ThreadIds, c \in inputs : begin_find(t, c[1], c[2])

RecognizeFaces(inputs) ==
    \E t \in ThreadIds, image \in inputs : begin_recognize(t, image)

GetStudents == \E t \in ThreadIds : begin_list(t)

SaveAttendance ==
    \E t \in ThreadIds, course \in Courses \cup {Missing} :
       save_attendance(t, course, <<"s1">>)

GetAttendanceRecords == \E t \in ThreadIds : get_attendance_records(t)

LoadModels == \E t \in ThreadIds : load_models(t)

\* the threads at work
RegisterStore == \E t \in ThreadIds : register_store(t)

ScanStart == \E t \in ThreadIds : scan_start(t)

MakeIterator == \E t \in ThreadIds : make_iterator(t)

IterateNext == \E t \in ThreadIds : iterate_next(t)

ThreadReturn == \E t \in ThreadIds : thread_return(t)

\* Enrollment: every register-student request, with a reader of each kind
NextEnroll ==
    \/ RegisterStudent(RegisterInputs)
    \/ CallFindBestMatch({<<<<8, 6>>, DefaultThreshold>>})
    \/ GetStudents
    \/ RegisterStore
    \/ ScanStart
    \/ MakeIterator
    \/ IterateNext
    \/ ThreadReturn

SpecEnroll == Init /\ [][NextEnroll]_vars

\* Matching: every call of find_best_match, on the galleries of GalleryInputs
NextMatch ==
    \/ RegisterStudent(GalleryInputs)
    \/ CallFindBestMatch(FindInputs)
    \/ RegisterStore
    \/ ScanStart
    \/ MakeIterator
    \/ IterateNext
    \/ ThreadReturn

SpecMatch == Init /\ [][NextMatch]_vars

\* Recognition: every recognize-faces request, get-students and a direct
\* call, on galleries of subjects holding (0,0) or (0.8,0)
NextRecognize ==
    \/ RegisterStudent({r \in Enrollments : r[2] \in {"Alice", "Bob"}})
    \/ RecognizeFaces(ProbeImages)
    \/ CallFindBestMatch({<<<<0, 0>>, DefaultThreshold>>})
    \/ GetStudents
    \/ RegisterStore
    \/ ScanStart
    \/ MakeIterator
    \/ IterateNext
    \/ ThreadReturn

SpecRecognize == Init /\ [][NextRecognize]_vars

\* The whole service: every handler
NextService ==
    \/ RegisterStudent({<<"s1", "Alice", ImagesA>>, <<"s2", "Alice", ImagesA>>,
                        <<"s1", "Bob", ImagesD>>})
    \/ RecognizeFaces({Image(<<<<0, 12>>, <<0, 0>>>>)})
    \/ CallFindBestMatch({<<<<0, 0>>, DefaultThreshold>>})
    \/ GetStudents
    \/ SaveAttendance
    \/ GetAttendanceRecords
    \/ LoadModels
    \/ RegisterStore
    \/ ScanStart
    \/ MakeIterator
    \/ IterateNext
    \/ ThreadReturn

SpecService == Init /\ [][NextService]_vars

-----------------------------------------------------------------------------
(* Vocabulary of the properties *)

Range(seq) == {seq[i] : i \in 1..Len(seq)}

Min(a, b) == IF a < b THEN a ELSE b

\* the distances from a probe to every stored embedding of every subject
StoredDistances(data, probe) ==
    UNION {{face_distance(e, probe) : e \in Range(data[i].descriptors)} :
            i \in 1..Len(data)}

IsLeast(d, S) == d \in S /\ \A e \in S : d <= e

\* the least distance from the probe to a stored embedding (gallery not empty)
MinDistance(data, probe) ==
    CHOOSE d \in StoredDistances(data, probe) :
        IsLeast(d, StoredDistances(data, probe))

\* the least distance from the probe to an embedding of one entry
MinDistanceTo(student, probe) ==
    CHOOSE d \in {face_distance(e, probe) : e \in Range(student.descriptors)} :
        \A e \in Range(student.descriptors) : d <= face_distance(e, probe)

\* the entry holds an embedding at distance d from the probe
HoldsAt(student, probe, d) ==
    \E e \in Range(student.descriptors) : face_distance(e, probe) = d


\* the thread has finished the handler op and holds its answer
Answered(th, op) == th.pc = "done" /\ th.op = op

\* a register-student request whose verdict has fallen: th.before is the
\* gallery just before the verdict, th.after the gallery just after
Registered(th) == Answered(th, "register_student")

\* a direct call of find_best_match that has ended and whose reads of the
\* dict all found the gallery th.before: a call on that gallery
Found(th) == Answered(th, "find_best_match") /\ th.stable

\* a recognize-faces request that has ended and whose reads of the dict all
\* found the gallery th.before
Recognition(th) == Answered(th, "recognize_faces") /\ th.stable

-----------------------------------------------------------------------------
(* C1 *)

\* C1: right after the store of a successful register-student for an id that
\* was already enrolled, the gallery holds for that id exactly the name and
\* the embeddings of the request; and a probe equal to an old embedding that
\* is not among the new ones is answered, for every threshold, by no match, by
\* another subject, or by this subject at the (non-zero) distance of its
\* nearest new embedding.
C1_ReEnrollReplaces ==
    \A t \in ThreadIds :
       LET th == threads[t] IN
       (/\ Registered(th)
        /\ th.status = 200
        /\ HasKey(th.before, th.id))
       =>
       LET S == th.id
           A == Entry(th.before, S).descriptors
           B == ExtractDescriptors(th.images)
       IN /\ HasKey(th.after, S)
          /\ Entry(th.after, S).name = th.name
          /\ Entry(th.after, S).descriptors = B
          /\ \A a \in Range(A) \ Range(B) : \A thr \in Thresholds :
                LET m == find_best_match(th.after, a, thr) IN
                \/ m = None
                \/ m[1].studentId # S
                \/ /\ m[1].similarity =
                         One - MinDistanceTo(Entry(th.after, S), a)
                   /\ m[1].similarity < One

\* C1 witness: a request re-enrolled a subject under another name with
\* embeddings that leave out one of its old embeddings, and a probe equal to
\* that old embedding does not return the subject at the default threshold.
C1_Witness ==
    \E t \in ThreadIds :
       LET th == threads[t] IN
       /\ Registered(th)
       /\ th.status = 200
       /\ HasKey(th.before, th.id)
       /\ Entry(th.before, th.id).name # th.name
       /\ Entry(th.after, th.id).name = th.name
       /\ \E a \in Range(Entry(th.before, th.id).descriptors) :
             /\ a \notin Range(Entry(th.after, th.id).descriptors)
             /\ find_best_match(th.after, a, DefaultThreshold) = None

-----------------------------------------------------------------------------
(* C2 *)

\* C2: every subject in the gallery has at least one embedding.
C2_NoEmptySubject ==
    \A i \in 1..Len(students_data) : students_data[i].descriptors # <<>>

\* C2 witness: a request with id, name and images, none of whose images
\* yields a descriptor, was rejected and its id is not in the gallery.
C2_Witness ==
    \E t \in ThreadIds :
       LET th == threads[t] IN
       /\ Registered(th)
       /\ th.id # Missing /\ th.name # Missing
       /\ th.images # <<>>
       /\ ExtractDescriptors(th.images) = <<>>
       /\ th.status = 400
       /\ ~HasKey(students_data, th.id)

-----------------------------------------------------------------------------
(* C3 *)

\* C3: when the least distance from the probe to a stored embedding equals
\* the threshold, find_best_match returns None; and a returned match has a
\* distance strictly below the threshold.
C3_StrictThreshold ==
    \A t \in ThreadIds :
       LET th == threads[t] IN
       Found(th) =>
         /\ (th.before # <<>>
             /\ MinDistance(th.before, th.probe) = th.threshold)
            => th.match = None
         /\ th.match # None
            => One - th.match[1].similarity < th.threshold

\* C3 witness: a call whose nearest stored embedding is exactly at the
\* default threshold returned None.
C3_Witness ==
    \E t \in ThreadIds :
       LET th == threads[t] IN
       /\ Found(th)
       /\ th.before # <<>>
       /\ th.threshold = DefaultThreshold
       /\ MinDistance(th.before, th.probe) = th.threshold
       /\ th.match = None

-----------------------------------------------------------------------------
(* C4 *)

\* the first subject, in insertion order, holding an embedding at the least
\* distance from the probe
FirstAtMin(data, probe) ==
    data[CHOOSE i \in 1..Len(data) :
            /\ HoldsAt(data[i], probe, MinDistance(data, probe))
            /\ \A k \in 1..(i - 1) :
                  ~HoldsAt(data[k], probe, MinDistance(data, probe))]

\* C4: a returned match names the first subject, in insertion order, among
\* those holding an embedding at the least distance.
C4_TieBreak ==
    \A t \in ThreadIds :
       LET th == threads[t] IN
       (Found(th) /\ th.match # None) =>
         /\ th.match[1].studentId = FirstAtMin(th.before, th.probe).id
         /\ th.match[1].studentName = FirstAtMin(th.before, th.probe).name

\* C4 witness: two subjects hold different embeddings at the same least,
\* qualifying distance from the probe, and the first one is returned.
C4_Witness ==
    \E t \in ThreadIds :
       LET th == threads[t] IN
       /\ Found(th)
       /\ Len(th.before) = 2
       /\ \E d \in 1..(Min(th.threshold, One) - 1) :
             /\ d = MinDistance(th.before, th.probe)
             /\ \E e1 \in Range(th.before[1].descriptors),
                   e2 \in Range(th.before[2].descriptors) :
                   /\ e1 # e2
                   /\ face_distance(e1, th.probe) = d
                   /\ face_distance(e2, th.probe) = d
       /\ th.match # None
       /\ th.match[1].studentId = th.before[1].id

-----------------------------------------------------------------------------
(* C5 *)

\* C5: when some stored embedding is nearer than the threshold and than 1.0,
\* a match is returned, its similarity is 1 minus the least distance over all
\* stored embeddings, and the returned subject holds an embedding at that
\* distance.
C5_GlobalNearest ==
    \A t \in ThreadIds :
       LET th == threads[t] IN
       (/\ Found(th)
        /\ th.before # <<>>
        /\ MinDistance(th.before, th.probe) < th.threshold
        /\ MinDistance(th.before, th.probe) < One)
       =>
         /\ th.match # None
         /\ th.match[1].similarity = One - MinDistance(th.before, th.probe)
         /\ HasKey(th.before, th.match[1].studentId)
         /\ HoldsAt(Entry(th.before, th.match[1].studentId), th.probe,
                    MinDistance(th.before, th.probe))

\* C5 witness: the first subject holds a qualifying embedding that is visited
\* first and is not the nearest; the second subject, holding the nearest one,
\* is returned.
C5_Witness ==
    \E t \in ThreadIds :
       LET th == threads[t] IN
       /\ Found(th)
       /\ Len(th.before) = 2
       /\ face_distance(th.before[1].descriptors[1], th.probe)
             < Min(th.threshold, One)
       /\ MinDistanceTo(th.before[1], th.probe)
             > MinDistanceTo(th.before[2], th.probe)
       /\ th.match # None
       /\ th.match[1].studentId = th.before[2].id
       /\ th.match[1].similarity =
             One - MinDistanceTo(th.before[2], th.probe)

-----------------------------------------------------------------------------
(* C6 *)

\* C6: a call of find_best_match on a gallery returns a value and raises no
\* error, and that value is None when the gallery is empty and when no stored
\* embedding is nearer than the threshold.
C6_NoneWhenNothingQualifies ==
    \A t \in ThreadIds :
       LET th == threads[t] IN
       Found(th) =>
         /\ th.status = 200
         /\ th.before = <<>> => th.match = None
         /\ (\A d \in StoredDistances(th.before, th.probe) :
                d >= th.threshold)
            => th.match = None

\* C6 witness: a call on a gallery of two subjects whose embeddings are all
\* farther than the threshold returned None.
C6_Witness ==
    \E t \in ThreadIds :
       LET th == threads[t] IN
       /\ Found(th)
       /\ Len(th.before) = 2
       /\ \A d \in StoredDistances(th.before, th.probe) : d > th.threshold
       /\ th.status = 200
       /\ th.match = None

-----------------------------------------------------------------------------
(* C7 *)

\* C7: a match is returned exactly when the least stored distance is below
\* min(threshold, 1.0); a returned match has a distance below 1.0 whatever
\* the threshold.
C7_SentinelCapsThreshold ==
    \A t \in ThreadIds :
       LET th == threads[t] IN
       Found(th) =>
         /\ th.match # None
            <=> /\ th.before # <<>>
                /\ MinDistance(th.before, th.probe)
                      < Min(th.threshold, One)
         /\ th.match # None => One - th.match[1].similarity < One

\* C7 witness: the threshold is above 1.0 and the nearest stored embedding is
\* at a distance of at least 1.0 and below the threshold; None was returned.
C7_Witness ==
    \E t \in ThreadIds :
       LET th == threads[t] IN
       /\ Found(th)
       /\ th.before # <<>>
       /\ th.threshold > One
       /\ MinDistance(th.before, th.probe) >= One
       /\ MinDistance(th.before, th.probe) < th.threshold
       /\ th.match = None

-----------------------------------------------------------------------------
(* C8 *)

\* the results of find_best_match on each probe, None included
PerProbe(data, face_encodings) ==
    [i \in 1..Len(face_encodings) |->
        find_best_match(data, face_encodings[i], DefaultThreshold)]

\* the non-None results, in probe order
Hits(data, face_encodings) ==
    SelectSeq(PerProbe(data, face_encodings), LAMBDA m : m # None)

\* C8: a successful recognize-faces returns no more elements than probes and
\* no placeholder; on a gallery it returns the non-None results of
\* find_best_match on its probes, in probe order: as many elements as probes
\* that match.
C8_OmitsNonMatches ==
    \A t \in ThreadIds :
       LET th == threads[t]
           probes == th.image.faces
           hits == Hits(th.before, probes)
       IN /\ (Answered(th, "recognize_faces") /\ th.status = 200) =>
                /\ Len(th.recognized) <= Len(probes)
                /\ \A k \in 1..Len(th.recognized) :
                      th.recognized[k].studentId \in SubjectIds
          /\ (Recognition(th) /\ th.status = 200) =>
                /\ Len(th.recognized) = Len(hits)
                /\ \A k \in 1..Len(hits) : th.recognized[k] = hits[k][1]
                /\ Len(th.recognized) =
                      Cardinality({i \in 1..Len(probes) :
                                     PerProbe(th.before, probes)[i] # None})

\* C8 witness: of three probes the first and the third match different
\* subjects and the second matches nobody; the output has two elements, the
\* first probe's match and then the third probe's match.
C8_Witness ==
    \E t \in ThreadIds :
       LET th == threads[t]
           probes == th.image.faces
           per == PerProbe(th.before, probes)
       IN /\ Recognition(th)
          /\ th.status = 200
          /\ Len(probes) = 3
          /\ per[1] # None
          /\ per[2] = None
          /\ per[3] # None
          /\ Len(th.recognized) = 2
          /\ <<th.recognized[1]>> = per[1]
          /\ <<th.recognized[2]>> = per[3]
          /\ th.recognized[1].studentId # th.recognized[2].studentId

-----------------------------------------------------------------------------
(* C9 *)

\* the subjects, by position, that store the embedding e
Holders(data, e) == {i \in 1..Len(data) : e \in Range(data[i].descriptors)}

\* C9 as stated: a call with the default threshold and a probe that a subject
\* S stores returns S with similarity 1.0, for every such S.
C9_Original ==
    \A t \in ThreadIds :
       LET th == threads[t] IN
       (Found(th) /\ th.threshold = DefaultThreshold) =>
         \A i \in Holders(th.before, th.probe) :
            /\ th.match # None
            /\ th.match[1].studentId = th.before[i].id
            /\ th.match[1].similarity = One

\* C9 amended: a call with the default threshold and a probe that some subject
\* stores returns similarity 1.0 and the first subject, in insertion order,
\* that stores the probe (S itself when no subject before S stores it).
C9_SelfMatch ==
    \A t \in ThreadIds :
       LET th == threads[t] IN
       (/\ Found(th)
        /\ th.threshold = DefaultThreshold
        /\ Holders(th.before, th.probe) # {})
       =>
         /\ th.match # None
         /\ th.match[1].similarity = One
         /\ \E i \in Holders(th.before, th.probe) :
               /\ \A k \in Holders(th.before, th.probe) : i <= k
               /\ th.match[1].studentId = th.before[i].id
               /\ th.match[1].studentName = th.before[i].name

\* C9 witness: the probe is the second embedding of the second subject and
\* is not stored by the first subject; the second subject is returned with
\* similarity 1.0.
C9_Witness ==
    \E t \in ThreadIds :
       LET th == threads[t] IN
       /\ Found(th)
       /\ th.threshold = DefaultThreshold
       /\ Len(th.before) = 2
       /\ Len(th.before[2].descriptors) = 2
       /\ th.before[2].descriptors[2] = th.probe
       /\ th.before[2].descriptors[1] # th.probe
       /\ th.probe \notin Range(th.before[1].descriptors)
       /\ th.match # None
       /\ th.match[1].studentId = th.before[2].id
       /\ th.match[1].similarity = One

-----------------------------------------------------------------------------
(* C10 *)

\* C10: every match returned by find_best_match, directly or through
\* recognize-faces, has a similarity between 0 and 1.0, and the similarity of
\* a call on a gallery is 1 minus the distance of an embedding of the returned
\* subject.
C10_SimilarityInUnitInterval ==
    \A t \in ThreadIds :
       LET th == threads[t] IN
       /\ (Answered(th, "find_best_match") /\ th.match # None) =>
             /\ th.match[1].similarity >= 0
             /\ th.match[1].similarity <= One
       /\ (Found(th) /\ th.match # None) =>
             /\ HasKey(th.before, th.match[1].studentId)
             /\ HoldsAt(Entry(th.before, th.match[1].studentId), th.probe,
                        One - th.match[1].similarity)
       /\ th.op = "recognize_faces" =>
             \A k \in 1..Len(th.recognized) :
                /\ th.recognized[k].similarity >= 0
                /\ th.recognized[k].similarity <= One

\* C10 witness: with a threshold above 1.0 and a stored embedding farther
\* than 1.0 but nearer than the threshold, a match was returned and its
\* similarity is not negative.
C10_Witness ==
    \E t \in ThreadIds :
       LET th == threads[t] IN
       /\ Found(th)
       /\ th.threshold > One
       /\ \E d \in StoredDistances(th.before, th.probe) :
             d > One /\ d < th.threshold
       /\ th.match # None
       /\ th.match[1].similarity >= 0
       /\ th.match[1].similarity < One

-----------------------------------------------------------------------------
(* C11 *)

\* an image from which lines 81-89 take a descriptor
Usable(img) == img.ok /\ Len(img.faces) = 1

\* the value a register-student request stores: its id, its name and the
\* encodings of its usable images
ValueOf(r) ==
    [id |-> r[1], name |-> r[2],
     descriptors |-> [k \in 1..Len(SelectSeq(r[3], Usable)) |->
                        SelectSeq(r[3], Usable)[k].faces[1]]]

\* the complete value of one register-student request that has stored
Complete(student) == \E r \in enrolls : student = ValueOf(r)

\* C11: under every interleaving of the handler threads, every value a
\* reading thread takes from the gallery, and every value in the gallery, is
\* the complete value (id, name and whole embedding list) of one
\* register-student request that has stored: never a part of a list, never
\* the name of one request with the embeddings of another.
C11_EnrollAtomicForReaders ==
    /\ \A i \in 1..Len(students_data) : Complete(students_data[i])
    /\ \A t \in ThreadIds :
          threads[t].fetched # None => Complete(threads[t].fetched[1])

\* C11 witness: after a reader had started on a gallery, another thread
\* re-enrolled a subject of that gallery with two embeddings under another
\* name; the reader then took that subject from the dict and saw the new
\* value, whole.
C11_Witness ==
    \E t \in ThreadIds :
       LET th == threads[t] IN
       /\ th.op \in {"find_best_match", "get_students"}
       /\ th.fetched # None
       /\ HasKey(th.before, th.fetched[1].id)
       /\ Entry(th.before, th.fetched[1].id).name # th.fetched[1].name
       /\ Len(Entry(th.before, th.fetched[1].id).descriptors) = 1
       /\ Len(th.fetched[1].descriptors) = 2
       /\ Complete(th.fetched[1])

-----------------------------------------------------------------------------
(* C12 *)

\* C12 as stated: no register-student handler changes the gallery between
\* the start and the end of a scan, so every read of the dict by a call of
\* find_best_match or by a recognize-faces request finds the gallery of its
\* start; a direct call ends with the result of find_best_match on that
\* gallery, and a recognize-faces request with a decodable image ends with
\* the matches of its faces on that gallery, neither with the error of a
\* dict that changed size during iteration.
C12_ScanExcludesEnroll ==
    \A t \in ThreadIds :
       LET th == threads[t] IN
       /\ th.op \in {"find_best_match", "recognize_faces"} => th.stable
       /\ Answered(th, "find_best_match") =>
             /\ th.status = 200
             /\ th.match =
                   find_best_match(th.before, th.probe, th.threshold)
       /\ (Answered(th, "recognize_faces")
           /\ th.image.present /\ th.image.ok) =>
             /\ th.status = 200
             /\ Len(th.recognized) = Len(Hits(th.before, th.image.faces))
             /\ \A k \in 1..Len(th.recognized) :
                   th.recognized[k] =
                      Hits(th.before, th.image.faces)[k][1]

-----------------------------------------------------------------------------
(* C13 *)

Ids(data) == {data[i].id : i \in 1..Len(data)}

\* C13: no step of any handler (register-student accepted or rejected,
\* recognize-faces, find_best_match, get-students, save-attendance, ...)
\* takes an id out of the gallery: the set of enrolled ids only grows.
C13_SubjectsPersist ==
    [][Ids(students_data) \subseteq Ids(students_data')]_vars

\* C13 witness: a second id was enrolled and the id enrolled before it is
\* still in the gallery.
C13_Witness ==
    \E t \in ThreadIds :
       LET th == threads[t] IN
       /\ Registered(th)
       /\ th.status = 200
       /\ Len(th.before) = 1
       /\ ~HasKey(th.before, th.id)
       /\ Len(students_data) = 2
       /\ HasKey(students_data, th.before[1].id)

-----------------------------------------------------------------------------
(* C14 *)

\* C14: a register-student request with a missing id, name or image list, or
\* with no usable image, is answered 400; and the verdict of a request
\* answered 400 leaves the gallery as it was.
C14_RejectedLeavesGallery ==
    \A t \in ThreadIds :
       LET th == threads[t] IN
       Registered(th) =>
         /\ (\/ th.id = Missing
             \/ th.name = Missing
             \/ th.images = <<>>
             \/ \A i \in 1..Len(th.images) : ~Usable(th.images[i]))
            => th.status = 400
         /\ th.status = 400 => th.after = th.before

\* C14 witness: a request for an enrolled id, with a name and images none of
\* which is usable, was rejected and the id keeps its name and embeddings.
C14_Witness ==
    \E t \in ThreadIds :
       LET th == threads[t] IN
       /\ Registered(th)
       /\ th.name # Missing
       /\ th.images # <<>>
       /\ th.status = 400
       /\ HasKey(th.before, th.id)
       /\ Entry(th.before, th.id).name # th.name
       /\ Entry(th.after, th.id) = Entry(th.before, th.id)

-----------------------------------------------------------------------------
(* C15 *)

\* C15: a register-student request with an id, a name and at least one usable
\* image succeeds, and the embeddings a successful request stores are, in the
\* order of the images, the encodings of its usable images; the other images
\* add nothing and do not stop the images after them from being used.
C15_KeepsUsableImages ==
    \A t \in ThreadIds :
       LET th == threads[t] IN
       (/\ Registered(th)
        /\ \/ th.status = 200
           \/ /\ th.id # Missing
              /\ th.name # Missing
              /\ SelectSeq(th.images, Usable) # <<>>)
       =>
         /\ th.status = 200
         /\ HasKey(th.after, th.id)
         /\ LET usable == SelectSeq(th.images, Usable)
                stored == Entry(th.after, th.id).descriptors
            IN /\ Len(stored) = Len(usable)
               /\ \A k \in 1..Len(usable) : stored[k] = usable[k].faces[1]

\* C15 witness: the first image failed to decode, the second is usable, and
\* the subject is stored with the encoding of the second image only.
C15_Witness ==
    \E t \in ThreadIds :
       LET th == threads[t] IN
       /\ Registered(th)
       /\ th.status = 200
       /\ Len(th.images) = 2
       /\ ~th.images[1].ok
       /\ Usable(th.images[2])
       /\ Entry(th.after, th.id).descriptors = <<th.images[2].faces[1]>>

-----------------------------------------------------------------------------
(* C16 *)

QueryOps == {"find_best_match", "recognize_faces", "get_students"}

\* the step is one of a thread that runs, or starts, one of the queries
QueryStep ==
    \E t \in ThreadIds :
       threads'[t] # threads[t] /\ threads'[t].op \in QueryOps

\* C16: no step of find_best_match, recognize-faces or get-students changes
\* the gallery (ids, order, names, embeddings); and get-students on a gallery
\* returns one {id, name} pair per subject, in insertion order, with no other
\* field.
C16_QueriesReadOnly ==
    /\ [][QueryStep => students_data' = students_data]_vars
    /\ [](\A t \in ThreadIds :
            LET th == threads[t] IN
            (Answered(th, "get_students") /\ th.stable) =>
               /\ th.status = 200
               /\ Len(th.listed) = Len(th.before)
               /\ \A i \in 1..Len(th.before) :
                     /\ DOMAIN th.listed[i] = {"id", "name"}
                     /\ th.listed[i].id = th.before[i].id
                     /\ th.listed[i].name = th.before[i].name)

\* C16 witness: get-students on a gallery of two subjects listed both, in
\* insertion order, and the gallery is as before.
C16_Witness ==
    \E t \in ThreadIds :
       LET th == threads[t] IN
       /\ Answered(th, "get_students")
       /\ th.stable
       /\ Len(th.before) = 2
       /\ students_data = th.before
       /\ Len(th.listed) = 2
       /\ th.listed[1].id = students_data[1].id
       /\ th.listed[2].id = students_data[2].id

-----------------------------------------------------------------------------
(* C17 *)

\* the subject at position i of the gallery and a subject after it both hold
\* an embedding at distance d from the probe, and no subject before position
\* i does
TieAt(data, i, probe, d) ==
    /\ \E k \in (i + 1)..Len(data) : HoldsAt(data[k], probe, d)
    /\ HoldsAt(data[i], probe, d)
    /\ \A h \in 1..(i - 1) : ~HoldsAt(data[h], probe, d)

\* C17: the store of a successful register-student for an enrolled id leaves
\* the ids of the gallery in the same order and the other subjects as they
\* were; a tie at a qualifying distance between the re-enrolled subject and a
\* subject after it is resolved for the re-enrolled subject.
C17_ReEnrollKeepsPosition ==
    \A t \in ThreadIds :
       LET th == threads[t] IN
       (/\ Registered(th)
        /\ th.status = 200
        /\ HasKey(th.before, th.id))
       =>
         /\ Len(th.after) = Len(th.before)
         /\ \A i \in 1..Len(th.before) :
               /\ th.after[i].id = th.before[i].id
               /\ th.before[i].id # th.id => th.after[i] = th.before[i]
         /\ \A i \in 1..Len(th.after) :
               th.after[i].id = th.id =>
                  \A p \in ProbeEmbeddings :
                     \A d \in StoredDistances(<<th.after[i]>>, p) :
                        (/\ TieAt(th.after, i, p, d)
                         /\ IsLeast(d, StoredDistances(th.after, p)))
                        => \A thr \in Thresholds :
                              d < Min(thr, One) =>
                                 LET m == find_best_match(th.after, p, thr)
                                 IN m # None /\ m[1].studentId = th.id

\* C17 witness: the first of two subjects was re-enrolled with another
\* embedding; it is still first, and the probe (0.4,0.3), at distance 0.5 from
\* its new embedding and from a different embedding of the second subject, is
\* answered with the first subject.
C17_Witness ==
    \E t \in ThreadIds :
       LET th == threads[t] IN
       /\ Registered(th)
       /\ th.status = 200
       /\ Len(th.before) = 2
       /\ th.before[1].id = th.id
       /\ th.after[1].id = th.id
       /\ th.after[1].descriptors # th.before[1].descriptors
       /\ Len(th.after[1].descriptors) = 1
       /\ th.after[1].descriptors[1] \notin Range(th.after[2].descriptors)
       /\ MinDistance(th.after, <<8, 6>>) < DefaultThreshold
       /\ TieAt(th.after, 1, <<8, 6>>, MinDistance(th.after, <<8, 6>>))
       /\ find_best_match(th.after, <<8, 6>>, DefaultThreshold)[1].studentId
             = th.id

====
